---- MODULE Spec2Model ----
(***************************************************************************)
(* The ag.dev client of apps/main/src/config.ts: the transport             *)
(* (AgDevClient.request), the run methods, the polling loop                *)
(* (AgDevClient.waitForAgentRun) and the batch runner (Agent.runBatch).    *)
(*                                                                         *)
(* JavaScript strings are modelled as sequences of tokens, so that a       *)
(* template literal is a concatenation and String.includes is a search.    *)
(***************************************************************************)
EXTENDS Integers, Sequences, FiniteSets, TLC

VARIABLES
    call,       \* transport: the request handed to fetch, or NoCall
    raw,        \* transport: what fetch settled with
    outcome,    \* transport: what request() returned or threw
    now,        \* Date.now()
    options,    \* the {pollInterval, timeout} of the runBatch call
    inputs,     \* the inputs of the runBatch call
    remote,     \* the runs of the remote service, by id
    member,     \* per input: the startRun / waitForRun promise of the batch
    batch,      \* the runBatch promise
    client,     \* the AgDevClient: its apiKey and baseUrl
    sent,       \* the requests handed to fetch so far
    stage,      \* main: the runBatch call of each of the four agents
    main,       \* main: where it is, and the error it ended with
    saved,      \* the files written by saveResults
    draft       \* the gamil_create_draft tool call of the Arcade MCP server

transportVars == <<call, raw, outcome>>
batchVars == <<now, options, inputs, remote, member, batch>>
clientVars == <<client, sent>>
pipelineVars == <<stage, main, saved>>
draftVars == <<draft>>
vars == <<call, raw, outcome, now, options, inputs, remote, member, batch, client, sent,
          stage, main, saved, draft>>

\* main is not running
Stages == {"profile", "contacts", "contactProfile", "outreach"}

NoStage == [phase |-> "idle", agentId |-> "", inputs |-> <<>>, results |-> <<>>, err |-> <<>>]

IdleMain == [pc |-> "idle"]

\* no tool call has arrived
NoDraft == [pc |-> "idle"]

NoPipeline ==
    /\ stage = [s \in Stages |-> NoStage]
    /\ main = IdleMain
    /\ saved = <<>>

(***************************************************************************)
(* Bounds of the model.                                                    *)
(***************************************************************************)
MaxBatch == 2
MaxTime == 2
MaxWaitTime == 5
MaxPolls == 3
MaxRequests == 2

(***************************************************************************)
(* Values.                                                                 *)
(***************************************************************************)
AgentIds == {"agent-1"}
RunIds == {"run-1", "run-2"}
InputValues == {"a", "b"}

\* AgentRun (the fields the client reads)
NoRun ==
    [id |-> "", agentId |-> "", status |-> "", input |-> "", resultData |-> "",
     createdAt |-> "", updatedAt |-> "", completedAt |-> ""]

\* AgentRun["status"]
RunStatuses == {"pending", "running", "done", "error"}

\* a JSON body: does it parse, which fields it has, and their values
NotJson == [json |-> FALSE, fields |-> {}, error |-> <<>>, message |-> <<>>, run |-> NoRun]

EmptyBody == [json |-> TRUE, fields |-> {}, error |-> <<>>, message |-> <<>>, run |-> NoRun]

ErrorBody(fields, error, message) ==
    [json |-> TRUE, fields |-> fields, error |-> error, message |-> message, run |-> NoRun]

RunBody(run) ==
    [json |-> TRUE,
     fields |-> {"id", "agentId", "status", "input", "resultData", "createdAt", "updatedAt", "completedAt"},
     error |-> <<>>, message |-> <<>>, run |-> run]

\* `{} as T`
EmptyResult == EmptyBody

\* headers.get("content-type"): null, or a string
NoHeader == [present |-> FALSE, text |-> <<>>]

Header(text) == [present |-> TRUE, text |-> text]

\* an Error object (isError: `instanceof Error`), or any other thrown value
ErrorOf(cls, msg) == [isError |-> TRUE, cls |-> cls, msg |-> msg]

\* a property of an object, as a template literal prints it
Field(obj, name) == IF name \in obj.fields THEN obj[name] ELSE <<"undefined">>

\* JavaScript truthiness of a string property: present and not ""
Truthy(obj, name) == name \in obj.fields /\ obj[name] # <<>>

\* String.prototype.includes
Includes(text, token) == \E i \in 1..Len(text) : text[i] = token

\* Response.ok
ResponseOk(response) == response.status \in 200..299

Returned(value, parsed) == [ok |-> TRUE, value |-> value, parsed |-> parsed, err |-> ErrorOf("", <<>>)]

Thrown(err, parsed) == [ok |-> FALSE, value |-> EmptyResult, parsed |-> parsed, err |-> err]

(***************************************************************************)
(* fetch: what it settles with.                                            *)
(***************************************************************************)
NoResponse == [status |-> 0, statusText |-> <<>>, contentType |-> NoHeader, body |-> NotJson]

NoThrown == ErrorOf("", <<>>)

\* fetch rejected: no HTTP response exists
Rejected(thrown) == [kind |-> "reject", thrown |-> thrown, response |-> NoResponse]

\* fetch resolved with a Response
Responded(response) == [kind |-> "response", thrown |-> NoThrown, response |-> response]

NoFetch == [kind |-> "none", thrown |-> NoThrown, response |-> NoResponse]

NoOutcome == [ok |-> FALSE, value |-> EmptyResult, parsed |-> FALSE, err |-> ErrorOf("none", <<>>)]

\* the reason phrase of a status line; HTTP/2 responses have none
StatusText(status) ==
    CASE status = 200 -> <<"OK">>
      [] status = 204 -> <<"No Content">>
      [] status = 404 -> <<"Not Found">>
      [] status = 500 -> <<"Internal Server Error">>
      [] OTHER -> <<>>

(***************************************************************************)
(* AgDevClient.request                                                     *)
(***************************************************************************)
\* the body is serialised only for a truthy body and POST, PATCH or PUT
requestInit(method, bodyGiven) ==
    [method |-> method, hasBody |-> bodyGiven /\ method \in {"POST", "PATCH", "PUT"}]

\* SynthesizedError with the status text left out of the message
SynthesizedErrorNoStatusText(response) ==
    ErrorBody({"error", "message", "statusCode"},
              <<"HTTP_ERROR">>,
              <<"HTTP ", ToString(response.status)>>)

\* the errorData built when response.json() throws
SynthesizedError(response) ==
    ErrorBody({"error", "message", "statusCode"},
              <<"HTTP_ERROR">>,
              <<"HTTP ", ToString(response.status), ": ">> \o response.statusText)

\* errorData: the parsed body, or the synthesized one
ErrorData(response) ==
    IF response.body.json THEN response.body ELSE SynthesizedError(response)

\* ApiErrorMessage preferring the error code: errorData.error || errorData.message
ApiErrorMessageErrorFirst(errorData) ==
    <<"API Error: ">> \o
        (IF Truthy(errorData, "error") THEN errorData.error ELSE Field(errorData, "message"))

\* `API Error: ${errorData.message || errorData.error}`
ApiErrorMessage(errorData) ==
    <<"API Error: ">> \o
        (IF Truthy(errorData, "message") THEN errorData.message ELSE Field(errorData, "error"))

\* catch (error): an Error is rethrown as it is, anything else is wrapped
CatchClause(thrown) ==
    IF thrown.isError
        THEN thrown
        ELSE ErrorOf("Error", <<"Network error: ">> \o thrown.msg)

\* IsJsonContentType parsing whenever the header is there
IsJsonContentTypeAnyHeader(contentType) == contentType.present

\* contentType && contentType.includes("application/json")
IsJsonContentType(contentType) ==
    /\ contentType.present
    /\ contentType.text # <<>>
    /\ Includes(contentType.text, "application/json")

\* request with a NotFound error kind for a 404
requestNotFoundKind(f) ==
    IF f.kind = "reject"
        THEN Thrown(CatchClause(f.thrown), FALSE)
    ELSE IF ~ResponseOk(f.response)
        THEN Thrown(CatchClause(ErrorOf(IF f.response.status = 404 THEN "NotFound" ELSE "Error",
                                        ApiErrorMessage(ErrorData(f.response)))), TRUE)
    ELSE IF IsJsonContentType(f.response.contentType)
        THEN IF f.response.body.json
                THEN Returned(f.response.body, TRUE)
                ELSE Thrown(CatchClause(ErrorOf("SyntaxError", <<"Unexpected end of JSON input">>)), TRUE)
    ELSE Returned(EmptyResult, FALSE)

\* request(), from the settling of fetch on
request(f) ==
    IF f.kind = "reject"
        THEN Thrown(CatchClause(f.thrown), FALSE)
    ELSE IF ~ResponseOk(f.response)
        THEN Thrown(CatchClause(ErrorOf("Error", ApiErrorMessage(ErrorData(f.response)))), TRUE)
    ELSE IF IsJsonContentType(f.response.contentType)
        THEN IF f.response.body.json
                THEN Returned(f.response.body, TRUE)
                ELSE Thrown(CatchClause(ErrorOf("SyntaxError", <<"Unexpected end of JSON input">>)), TRUE)
    ELSE Returned(EmptyResult, FALSE)

(***************************************************************************)
(* The client methods: the request each one makes.                         *)
(***************************************************************************)
Call(op, method, bodyGiven, endpoint) ==
    [op |-> op, method |-> requestInit(method, bodyGiven).method,
     hasBody |-> requestInit(method, bodyGiven).hasBody, endpoint |-> endpoint]

NoCall == [op |-> "", method |-> "", hasBody |-> FALSE, endpoint |-> <<>>]

listAgentsCall == Call("listAgents", "GET", FALSE, <<"/v0.1/agents/">>)

getAgentCall(agentId) == Call("getAgent", "GET", FALSE, <<"/v0.1/agents/", agentId>>)

createAgentCall == Call("createAgent", "POST", TRUE, <<"/v0.1/agents">>)

updateAgentCall(agentId) == Call("updateAgent", "PATCH", TRUE, <<"/v0.1/agents/", agentId>>)

deleteAgentCall(agentId) == Call("deleteAgent", "DELETE", FALSE, <<"/v0.1/agents/", agentId>>)

createAgentRunCall(agentId) ==
    Call("createAgentRun", "POST", TRUE, <<"/v0.1/agents/", agentId, "/runs">>)

listAgentRunsCall(agentId) ==
    Call("listAgentRuns", "GET", FALSE, <<"/v0.1/agents/", agentId, "/runs/">>)

\* getAgentRunCall of a client that is bound to one agent
getAgentRunCallOneAgent(agentId, runId) ==
    Call("getAgentRun", "GET", FALSE, <<"/v0.1/agents/", "agent-1", "/runs/", runId>>)

\* getAgentRunEventsCall deleting the run instead
getAgentRunEventsCallDelete(agentId, runId) ==
    Call("getAgentRunEvents", "DELETE", FALSE, <<"/v0.1/agents/", agentId, "/runs/", runId>>)

getAgentRunCall(agentId, runId) ==
    Call("getAgentRun", "GET", FALSE, <<"/v0.1/agents/", agentId, "/runs/", runId>>)

getAgentRunEventsCall(agentId, runId) ==
    Call("getAgentRunEvents", "GET", FALSE, <<"/v0.1/agents/", agentId, "/runs/", runId, "/events">>)

(***************************************************************************)
(* The AgDevClient and what it hands to fetch.                             *)
(***************************************************************************)
\* config.AG_DEV_API_KEY
ApiKey == "key-1"

BaseUrls == {<<"https://api.ag.dev">>, <<"https://api.ag.dev", "/">>}

\* baseUrl.replace(/\/$/, "")
RemoveTrailingSlash(url) ==
    IF Len(url) > 0 /\ url[Len(url)] = "/" THEN SubSeq(url, 1, Len(url) - 1) ELSE url

\* new AgDevClient(apiKey, baseUrl)
AgDevClient(apiKey, baseUrl) == [apiKey |-> apiKey, baseUrl |-> RemoveTrailingSlash(baseUrl)]

\* fetch(url, requestInit) of the call c made through the client cl; `by` is
\* the invocation that made it (history)
Wire(c, cl, by) ==
    [by |-> by, method |-> c.method, url |-> cl.baseUrl \o c.endpoint,
     apiKey |-> cl.apiKey, hasBody |-> c.hasBody]

(***************************************************************************)
(* The transport alone: one request at a time, fetch settling in every way *)
(* it can.                                                                 *)
(***************************************************************************)
HttpStatuses == {200, 204, 404, 500}

ContentTypes ==
    {NoHeader, Header(<<>>), Header(<<"application/json">>),
     Header(<<"application/json", "; charset=utf-8">>), Header(<<"text/plain">>)}

SomeRun ==
    [NoRun EXCEPT !.id = "run-1", !.agentId = "agent-1", !.status = "done", !.input = "a",
                  !.resultData = "result", !.createdAt = "at-pending", !.updatedAt = "at-done",
                  !.completedAt = "at-done"]

Bodies ==
    {NotJson, EmptyBody, RunBody(SomeRun),
     ErrorBody({"error", "message", "statusCode"}, <<"NOT_FOUND">>, <<"no such run">>),
     ErrorBody({"error", "message", "statusCode"}, <<"NOT_FOUND">>, <<>>),
     ErrorBody({"error", "statusCode"}, <<"NOT_FOUND">>, <<>>)}

Responses ==
    {r \in [status : HttpStatuses, statusText : {<<>>} \cup {StatusText(s) : s \in HttpStatuses},
            contentType : ContentTypes, body : Bodies] :
        /\ r.statusText \in {<<>>, StatusText(r.status)}
        /\ r.status = 204 => r.body = NotJson}

\* the platform's fetch rejects with a TypeError (DNS, connection reset, socket timeout)
FetchFailures == {ErrorOf("TypeError", <<"fetch failed">>)}

FetchOutcomes == {Rejected(t) : t \in FetchFailures} \cup {Responded(r) : r \in Responses}

IdleBatch == [phase |-> "idle", results |-> <<>>, err |-> NoThrown]

InitRequest ==
    /\ call = NoCall
    /\ raw = NoFetch
    /\ outcome = NoOutcome
    /\ now = 0
    /\ options = [pollInterval |-> 0, timeout |-> 0]
    /\ inputs = <<>>
    /\ remote = <<>>
    /\ member = <<>>
    /\ batch = IdleBatch
    /\ client \in {AgDevClient(ApiKey, u) : u \in BaseUrls}
    /\ NoPipeline
    /\ draft = NoDraft
    /\ sent = {}

Issue(c) ==
    /\ raw = NoFetch => call = NoCall
    /\ Cardinality(sent \cup {Wire(c, client, 0)}) <= MaxRequests
    /\ call' = c
    /\ raw' = NoFetch
    /\ outcome' = NoOutcome
    /\ sent' = sent \cup {Wire(c, client, 0)}
    /\ UNCHANGED client
    /\ UNCHANGED batchVars
    /\ UNCHANGED <<pipelineVars, draftVars>>

listAgents == Issue(listAgentsCall)

getAgent == \E a \in AgentIds : Issue(getAgentCall(a))

createAgent == Issue(createAgentCall)

updateAgent == \E a \in AgentIds : Issue(updateAgentCall(a))

deleteAgent == \E a \in AgentIds : Issue(deleteAgentCall(a))

createAgentRun == \E a \in AgentIds : Issue(createAgentRunCall(a))

listAgentRuns == \E a \in AgentIds : Issue(listAgentRunsCall(a))

getAgentRun == \E a \in AgentIds, r \in RunIds : Issue(getAgentRunCall(a, r))

getAgentRunEvents == \E a \in AgentIds, r \in RunIds : Issue(getAgentRunEventsCall(a, r))

\* fetch settles and request() runs to its end
FetchSettles ==
    /\ call # NoCall
    /\ raw = NoFetch
    /\ \E f \in FetchOutcomes :
        /\ raw' = f
        /\ outcome' = request(f)
    /\ UNCHANGED <<call>>
    /\ UNCHANGED clientVars
    /\ UNCHANGED batchVars
    /\ UNCHANGED <<pipelineVars, draftVars>>

NextRequest ==
    \/ listAgents
    \/ getAgent
    \/ createAgent
    \/ updateAgent
    \/ deleteAgent
    \/ createAgentRun
    \/ listAgentRuns
    \/ getAgentRun
    \/ getAgentRunEvents
    \/ FetchSettles

SpecRequest == InitRequest /\ [][NextRequest]_vars

(***************************************************************************)
(* The remote service: it creates runs, moves them to a terminal status    *)
(* and answers with snapshots.                                             *)
(***************************************************************************)
RunId(k) == "run-" \o ToString(k)

\* run.status === "done" || run.status === "error"
Terminal(status) == status = "done" \/ status = "error"

\* the run the remote creates for a POST .../runs
NewRun(k, agentId, input) ==
    [id |-> RunId(k), agentId |-> agentId, status |-> "pending", input |-> input, resultData |-> "",
     createdAt |-> "at-pending", updatedAt |-> "at-pending", completedAt |-> ""]

\* the statuses a run can move to
NextStatuses(status) ==
    CASE status = "pending" -> {"running", "done", "error"}
      [] status = "running" -> {"done", "error"}
      [] OTHER -> {}

\* resultData is there when the run is done, completedAt when it is terminal;
\* a time stamp names the status the run had when it was written
Progressed(run, status) ==
    [run EXCEPT !.status = status,
                !.resultData = IF status = "done" THEN "result" ELSE "",
                !.updatedAt = "at-" \o status,
                !.completedAt = IF status \in {"done", "error"} THEN "at-" \o status ELSE ""]

RemoteIndex(runs, runId) == CHOOSE k \in 1..Len(runs) : runs[k].id = runId

\* a 2xx answer carrying a run as JSON
RunResponse(run) ==
    Responded([status |-> 200, statusText |-> StatusText(200),
               contentType |-> Header(<<"application/json">>), body |-> RunBody(run)])

\* the ways a request to the remote fails: a 5xx with an error body, or no response
RemoteFailures ==
    {Responded([status |-> 500, statusText |-> StatusText(500),
                contentType |-> Header(<<"application/json">>),
                body |-> ErrorBody({"error", "message", "statusCode"},
                                   <<"INTERNAL">>, <<"internal error">>)])}
    \cup {Rejected(t) : t \in FetchFailures}

(***************************************************************************)
(* AgDevClient.waitForAgentRun, Agent.startRun, Agent.waitForRun           *)
(***************************************************************************)
ThisAgent == "agent-1"

PollIntervals == {1, 2}

Timeouts == {0, 2}

\* AgentRunResult: the fields Agent.waitForRun copies from the run
NoResult ==
    [id |-> "", status |-> "", input |-> "", resultData |-> "",
     createdAt |-> "", updatedAt |-> "", completedAt |-> ""]

\* AgentRunResult leaving out the time stamps
AgentRunResultNoTimes(run) ==
    [NoResult EXCEPT !.id = run.id, !.status = run.status, !.input = run.input,
                     !.resultData = run.resultData]

AgentRunResult(run) ==
    [id |-> run.id, status |-> run.status, input |-> run.input, resultData |-> run.resultData,
     createdAt |-> run.createdAt, updatedAt |-> run.updatedAt, completedAt |-> run.completedAt]

\* a startRun / waitForRun of the batch
NewMember ==
    [op |-> "runBatch", agentId |-> ThisAgent,
     pc |-> "creating", runId |-> "", startTime |-> 0, polls |-> 0, sleeps |-> 0,
     nonTerminal |-> 0, pollStart |-> 0, sleepStart |-> 0, endTime |-> 0,
     fetches |-> 1, failures |-> 0,
     result |-> NoResult, list |-> <<>>, err |-> NoThrown]

\* new Error(`Agent run ${runId} did not complete within ${timeout}ms`)
TimeoutError(runId, timeout) ==
    ErrorOf("Error", <<"Agent run ", runId, " did not complete within ", ToString(timeout), "ms">>)

\* LoopCondition with the deadline itself still inside: <= for <
LoopConditionInclusive(timeout, elapsed) == timeout = 0 \/ elapsed <= timeout

\* LoopCondition without the `timeout === 0 ||` of "wait forever"
LoopConditionNoForever(timeout, elapsed) == elapsed < timeout

\* LoopCondition without the deadline: while (true)
LoopConditionNoDeadline(timeout, elapsed) == TRUE

\* while (timeout === 0 || Date.now() - startTime < timeout)
LoopCondition(timeout, elapsed) == timeout = 0 \/ elapsed < timeout

\* LoopTop of a wait that the rejection of its batch cancels
LoopTopCancelled(m, timeout, t) ==
    IF batch.phase = "rejected"
        THEN [m EXCEPT !.pc = "failed", !.endTime = t, !.err = ErrorOf("AbortError", <<"cancelled">>)]
    ELSE IF timeout = 0 \/ t - m.startTime < timeout
        THEN [m EXCEPT !.pc = "polling", !.polls = @ + 1, !.fetches = @ + 1, !.pollStart = t]
        ELSE [m EXCEPT !.pc = "failed", !.endTime = t, !.err = TimeoutError(m.runId, timeout)]

\* the top of the loop at time t: the next getAgentRun, or the Timeout
LoopTop(m, timeout, t) ==
    IF LoopCondition(timeout, t - m.startTime)
        THEN [m EXCEPT !.pc = "polling", !.polls = @ + 1, !.fetches = @ + 1, !.pollStart = t]
        ELSE [m EXCEPT !.pc = "failed", !.endTime = t, !.err = TimeoutError(m.runId, timeout)]

\* waitForAgentRun up to its first await
waitForAgentRun(m, timeout, t) == LoopTop([m EXCEPT !.startTime = t], timeout, t)

\* OnSnapshot returning on "done" alone
OnSnapshotDoneOnly(m, run, t) ==
    IF run.status = "done"
        THEN [m EXCEPT !.pc = "returned", !.endTime = t, !.result = AgentRunResult(run)]
        ELSE [m EXCEPT !.pc = "sleeping", !.sleeps = @ + 1, !.sleepStart = t]

\* OnSnapshot throwing when the run ended with status error
OnSnapshotErrorThrows(m, run, t) ==
    IF run.status = "error"
        THEN [m EXCEPT !.pc = "failed", !.endTime = t, !.err = ErrorOf("Error", <<"Run failed: ", run.id>>)]
    ELSE IF run.status = "done"
        THEN [m EXCEPT !.pc = "returned", !.endTime = t, !.result = AgentRunResult(run)]
        ELSE [m EXCEPT !.pc = "sleeping", !.sleeps = @ + 1, !.sleepStart = t]

\* OnSnapshot checking the deadline again when the poll returns
OnSnapshotDeadline(m, run, t) ==
    IF options.timeout # 0 /\ t - m.startTime >= options.timeout
        THEN [m EXCEPT !.pc = "failed", !.endTime = t, !.err = TimeoutError(m.runId, options.timeout)]
    ELSE IF Terminal(run.status)
        THEN [m EXCEPT !.pc = "returned", !.endTime = t, !.result = AgentRunResult(run)]
        ELSE [m EXCEPT !.pc = "sleeping", !.sleeps = @ + 1, !.sleepStart = t]

\* getAgentRun returned `run` at time t: return it, or sleep
OnSnapshot(m, run, t) ==
    IF Terminal(run.status)
        THEN [m EXCEPT !.pc = "returned", !.endTime = t, !.result = AgentRunResult(run)]
        ELSE [m EXCEPT !.pc = "sleeping", !.sleeps = @ + 1, !.sleepStart = t]

\* OnRequestFailure making the failed request again
OnRequestFailureRetry(m, err, t) == [m EXCEPT !.failures = @ + 1, !.fetches = @ + 1]

\* a request of m threw err: the error goes to the caller, nothing is retried
OnRequestFailure(m, err, t) ==
    [m EXCEPT !.pc = "failed", !.endTime = t, !.err = err, !.failures = @ + 1]

\* the getAgentRun request that invocation i, now at m, has just handed to fetch
PollSent(m, i) ==
    IF m.pc = "polling" THEN {Wire(getAgentRunCall(m.agentId, m.runId), client, i)} ELSE {}

\* the statuses the claims call non-terminal
NonTerminalStatuses == {"pending", "running"}

\* the count of non-terminal snapshots a wait has seen (history)
Seen(m, run) ==
    [m EXCEPT !.nonTerminal = IF run.status \in NonTerminalStatuses THEN @ + 1 ELSE @]

(***************************************************************************)
(* Agent.runBatch                                                          *)
(***************************************************************************)
\* RejectBatch swallowing the rejection, as Promise.allSettled would
RejectBatchSwallowed(b, err) == b

\* Promise.all rejects with the first rejection of a member
RejectBatch(b, err) ==
    IF b.phase \in {"creating", "waiting"}
        THEN [b EXCEPT !.phase = "rejected", !.err = err]
        ELSE b

\* BatchResults in the order of the run ids, the order the remote created the runs in
BatchResultsByRunId(m) ==
    [k \in 1..Len(m) |-> m[CHOOSE i \in 1..Len(m) : m[i].runId = RunId(k)].result]

\* Promise.all resolves with the values in the order of the promises
BatchResults(m) == [i \in 1..Len(m) |-> m[i].result]

\* AllAt holding as soon as one promise is at pc
AllAtAny(m, pc) == \E i \in 1..Len(m) : m[i].pc = pc

\* Promise.all over the member promises: every one of them is at pc
AllAt(m, pc) == \A i \in 1..Len(m) : m[i].pc = pc

\* the input lists of the model: up to MaxBatch inputs, the first of them "a"
BatchInputs ==
    {in \in UNION {[1..n -> InputValues] : n \in 0..MaxBatch} : Len(in) > 0 => in[1] = "a"}

\* runBatch(inputs, options) has been called: every startRun is in flight
Init ==
    /\ call = NoCall
    /\ raw = NoFetch
    /\ outcome = NoOutcome
    /\ now = 0
    /\ options \in [pollInterval : PollIntervals, timeout : Timeouts]
    /\ inputs \in BatchInputs
    /\ remote = <<>>
    /\ member = [i \in 1..Len(inputs) |-> NewMember]
    /\ batch = [phase |-> "creating", results |-> <<>>, err |-> NoThrown]
    /\ client \in {AgDevClient(ApiKey, u) : u \in BaseUrls}
    /\ NoPipeline
    /\ draft = NoDraft
    /\ sent = {Wire(createAgentRunCall(member[i].agentId), client, i) : i \in 1..Len(inputs)}

\* the remote creates the run of member i and startRun returns its id
CreateRunReturns(i) ==
    /\ member[i].pc = "creating"
    /\ LET run == NewRun(Len(remote) + 1, member[i].agentId, inputs[i])
           res == request(RunResponse(run))
       IN /\ remote' = Append(remote, run)
          /\ member' = [member EXCEPT ![i].pc = "created", ![i].runId = res.value.run.id]
    /\ UNCHANGED <<now, options, inputs, batch>>
    /\ UNCHANGED clientVars
    /\ UNCHANGED transportVars
    /\ UNCHANGED <<pipelineVars, draftVars>>

\* the createAgentRun of member i fails: startRun throws, and so does runBatch
CreateRunFails(i) ==
    /\ member[i].pc = "creating"
    /\ \E f \in RemoteFailures :
        LET res == request(f)
            m == OnRequestFailure(member[i], res.err, now)
        IN /\ member' = [member EXCEPT ![i] = m]
           /\ batch' = IF m.pc = "failed" THEN RejectBatch(batch, m.err) ELSE batch
    /\ UNCHANGED <<now, options, inputs, remote>>
    /\ UNCHANGED clientVars
    /\ UNCHANGED transportVars
    /\ UNCHANGED <<pipelineVars, draftVars>>

\* every startRun has returned: runBatch calls waitForRun for each run id
StartWaits ==
    /\ batch.phase = "creating"
    /\ AllAt(member, "created")
    /\ member' = [i \in 1..Len(member) |->
                      IF member[i].pc = "created"
                          THEN waitForAgentRun(member[i], options.timeout, now)
                          ELSE member[i]]
    /\ batch' = [batch EXCEPT !.phase = "waiting"]
    /\ sent' = sent \cup UNION {PollSent(member'[i], i) : i \in 1..Len(member)}
    /\ UNCHANGED <<now, options, inputs, remote, client>>
    /\ UNCHANGED transportVars
    /\ UNCHANGED <<pipelineVars, draftVars>>

\* the getAgentRun of member i returns the snapshot of its run
PollReturns(i) ==
    /\ member[i].pc = "polling"
    /\ LET run == remote[RemoteIndex(remote, member[i].runId)]
           res == request(RunResponse(run))
       IN member' = [member EXCEPT ![i] = OnSnapshot(Seen(@, res.value.run), res.value.run, now)]
    /\ UNCHANGED <<now, options, inputs, remote, batch>>
    /\ UNCHANGED clientVars
    /\ UNCHANGED transportVars
    /\ UNCHANGED <<pipelineVars, draftVars>>

\* the getAgentRun of member i fails: the wait throws, and so does runBatch
PollFails(i) ==
    /\ member[i].pc = "polling"
    /\ \E f \in RemoteFailures :
        LET res == request(f)
            m == OnRequestFailure(member[i], res.err, now)
        IN /\ member' = [member EXCEPT ![i] = m]
           /\ batch' = IF m.pc = "failed" THEN RejectBatch(batch, m.err) ELSE batch
    /\ UNCHANGED <<now, options, inputs, remote>>
    /\ UNCHANGED clientVars
    /\ UNCHANGED transportVars
    /\ UNCHANGED <<pipelineVars, draftVars>>

\* the timer of member i fires, pollInterval or more after it was set: the
\* loop goes to its top
SleepEnds(i) ==
    /\ member[i].pc = "sleeping"
    /\ now >= member[i].sleepStart + options.pollInterval
    /\ LET m == LoopTop(member[i], options.timeout, now)
       IN /\ m.polls <= MaxPolls
          /\ member' = [member EXCEPT ![i] = m]
          /\ batch' = IF m.pc = "failed" THEN RejectBatch(batch, m.err) ELSE batch
          /\ sent' = sent \cup PollSent(m, i)
    /\ UNCHANGED <<now, options, inputs, remote, client>>
    /\ UNCHANGED transportVars
    /\ UNCHANGED <<pipelineVars, draftVars>>

\* every waitForRun has returned: runBatch returns the results
BatchReturns ==
    /\ batch.phase = "waiting"
    /\ AllAt(member, "returned")
    /\ batch' = [batch EXCEPT !.phase = "fulfilled", !.results = BatchResults(member)]
    /\ UNCHANGED <<now, options, inputs, remote, member>>
    /\ UNCHANGED clientVars
    /\ UNCHANGED transportVars
    /\ UNCHANGED <<pipelineVars, draftVars>>

\* the remote moves a run on
RemoteProgress(k) ==
    /\ \E status \in NextStatuses(remote[k].status) :
        remote' = [remote EXCEPT ![k] = Progressed(@, status)]
    /\ UNCHANGED <<now, options, inputs, member, batch>>
    /\ UNCHANGED clientVars
    /\ UNCHANGED transportVars
    /\ UNCHANGED <<pipelineVars, draftVars>>

\* some promise of the batch is waiting for a response or a timer
Awaiting == \E i \in 1..Len(member) : member[i].pc \in {"creating", "polling", "sleeping"}

\* time passes while a request or a timer is pending
TimePasses(limit) ==
    /\ Awaiting
    /\ now < limit
    /\ now' = now + 1
    /\ UNCHANGED <<options, inputs, remote, member, batch>>
    /\ UNCHANGED clientVars
    /\ UNCHANGED transportVars
    /\ UNCHANGED <<pipelineVars, draftVars>>

Tick == TimePasses(MaxTime)

Next ==
    \/ \E i \in 1..Len(member) : CreateRunReturns(i)
    \/ \E i \in 1..Len(member) : CreateRunFails(i)
    \/ StartWaits
    \/ \E i \in 1..Len(member) : PollReturns(i)
    \/ \E i \in 1..Len(member) : PollFails(i)
    \/ \E i \in 1..Len(member) : SleepEnds(i)
    \/ BatchReturns
    \/ \E k \in 1..Len(remote) : RemoteProgress(k)
    \/ Tick

Spec == Init /\ [][Next]_vars

(***************************************************************************)
(* One waitForRun alone: Agent.waitForRun(runId, options) on a run that    *)
(* exists, over a longer time.                                             *)
(***************************************************************************)
InitWait ==
    /\ call = NoCall
    /\ raw = NoFetch
    /\ outcome = NoOutcome
    /\ now = 0
    /\ options \in [pollInterval : PollIntervals, timeout : Timeouts]
    /\ inputs \in {<<v>> : v \in InputValues}
    /\ remote = <<NewRun(1, ThisAgent, inputs[1])>>
    /\ member = <<waitForAgentRun([NewMember EXCEPT !.op = "waitForRun", !.runId = RunId(1),
                                                      !.fetches = 0],
                                  options.timeout, now)>>
    /\ batch = IdleBatch
    /\ client \in {AgDevClient(ApiKey, u) : u \in BaseUrls}
    /\ NoPipeline
    /\ draft = NoDraft
    /\ sent = PollSent(member[1], 1)

TickWait == TimePasses(MaxWaitTime)

NextWait ==
    \/ PollReturns(1)
    \/ PollFails(1)
    \/ SleepEnds(1)
    \/ RemoteProgress(1)
    \/ TickWait

SpecWait == InitWait /\ [][NextWait]_vars

\* SpecWait with a clock that advances and timers that fire when they are due;
\* a getAgentRun need not ever settle (fetch is called with no signal)
SpecWaitLive ==
    /\ InitWait
    /\ [][NextWait]_vars
    /\ WF_vars(TickWait)
    /\ WF_vars(SleepEnds(1))

(***************************************************************************)
(* Claims about waitForAgentRun (checked under SpecWait).                  *)
(***************************************************************************)
Members == 1..Len(member)

\* the run of the remote that member i polls
RemoteRunOf(i) == remote[RemoteIndex(remote, member[i].runId)]

\* the errors a failed request of the model throws
RequestErrors == {request(f).err : f \in RemoteFailures}

\* member i ended by a failed request
RequestFailed(i) == member[i].pc = "failed" /\ member[i].err \in RequestErrors

\* member i ended by an error that is the Timeout of the loop
TimedOut(i) ==
    /\ member[i].pc = "failed"
    /\ Len(member[i].err.msg) > 0
    /\ Head(member[i].err.msg) = "Agent run "

\* C1: with N non-terminal polls followed by a terminal one (no timeout, no
\* failing request) the wait makes exactly N+1 getAgentRun calls, sleeps once
\* after each non-terminal poll and never after the terminal one, and returns
\* the snapshot of the last poll, whose status is done or error.
C1_PollsUntilTerminal ==
    \A i \in Members :
        /\ member[i].sleeps = member[i].nonTerminal
        /\ member[i].pc = "polling" => member[i].polls = member[i].nonTerminal + 1
        /\ member[i].pc = "sleeping" => member[i].polls = member[i].nonTerminal
        /\ member[i].pc = "returned" =>
              /\ member[i].polls = member[i].nonTerminal + 1
              /\ member[i].result.status \in {"done", "error"}
              /\ member[i].result = AgentRunResult(RemoteRunOf(i))

C1_Witness ==
    /\ member[1].pc = "returned"
    /\ member[1].nonTerminal = 2
    /\ member[1].polls = 3
    /\ member[1].sleeps = 2

\* C2 as stated: with timeout > 0 a wait that ends without a terminal
\* snapshot and without a failed request ends in the Timeout error naming the
\* run id and the timeout, no later than timeout + pollInterval after it
\* started.
C2_TimeoutWithinTimeoutPlusInterval ==
    \A i \in Members :
        (options.timeout > 0 /\ member[i].pc = "failed" /\ ~RequestFailed(i)) =>
            /\ member[i].err = TimeoutError(member[i].runId, options.timeout)
            /\ member[i].endTime - member[i].startTime <= options.timeout + options.pollInterval

\* C2 as amended: with timeout > 0 a wait that ends without a terminal
\* snapshot and without a failed request ends in the Timeout error naming the
\* run id and the timeout; it is raised at the first check at or after the
\* deadline, and every poll starts before the deadline, so the error is
\* later than the deadline by less than the duration of the last getAgentRun
\* plus that of the sleep after it, which is pollInterval or more.
C2_TimeoutAfterLastPollAndSleep ==
    \A i \in Members :
        /\ (options.timeout > 0 /\ member[i].pc = "polling") =>
              member[i].pollStart - member[i].startTime < options.timeout
        /\ (options.timeout > 0 /\ member[i].pc = "failed" /\ ~RequestFailed(i)) =>
              /\ member[i].err = TimeoutError(member[i].runId, options.timeout)
              /\ member[i].polls >= 1
              /\ member[i].pollStart - member[i].startTime < options.timeout
              /\ member[i].endTime - member[i].startTime >= options.timeout
              /\ member[i].endTime >= member[i].pollStart + options.pollInterval

C2_Witness ==
    /\ options.timeout = 2
    /\ options.pollInterval = 1
    /\ member[1].pc = "failed"
    /\ member[1].err = TimeoutError("run-1", 2)
    /\ member[1].endTime - member[1].startTime = 4

\* C3: with timeout = 0 the wait never ends in the Timeout error, however
\* much time passes and however many non-terminal polls there are; it ends
\* only by returning a terminal snapshot or by a failed getAgentRun.
C3_NoTimeoutWhenZero ==
    \A i \in Members :
        options.timeout = 0 =>
            /\ ~TimedOut(i)
            /\ member[i].pc = "failed" => RequestFailed(i)
            /\ member[i].pc = "returned" => member[i].result.status \in {"done", "error"}

C3_Witness ==
    /\ options.timeout = 0
    /\ member[1].pc = "returned"
    /\ member[1].nonTerminal = 2
    /\ member[1].endTime - member[1].startTime >= 4

(***************************************************************************)
(* Claims about runBatch (checked under Spec).                             *)
(***************************************************************************)
\* C4: when runBatch succeeds, the result list is as long as the inputs and
\* result i is the terminal snapshot of the run created for input i,
\* whatever the order of the createRun responses and of the completions.
C4_ResultsInInputOrder ==
    batch.phase = "fulfilled" =>
        /\ Len(batch.results) = Len(inputs)
        /\ \A i \in 1..Len(inputs) :
              /\ batch.results[i].id = member[i].runId
              /\ batch.results[i].input = inputs[i]
              /\ RemoteRunOf(i).input = inputs[i]
              /\ batch.results[i].status \in {"done", "error"}
              /\ batch.results[i] = AgentRunResult(RemoteRunOf(i))

\* the second create was answered first, and the second run ended first
C4_Witness ==
    /\ batch.phase = "fulfilled"
    /\ inputs = <<"a", "b">>
    /\ member[1].runId = "run-2"
    /\ member[2].endTime < member[1].endTime
    /\ batch.results[1].input = "a"
    /\ batch.results[2].input = "b"

\* C5: runBatch is all-or-nothing: once a createRun or a wait of the batch
\* has failed, the call has failed and the caller gets no result list, not
\* even the results of the members that reached a terminal state; a list is
\* returned only when every member returned.
C5_AllOrNothing ==
    /\ (\E i \in Members : member[i].pc = "failed") =>
          /\ batch.phase = "rejected"
          /\ batch.results = <<>>
          /\ \E i \in Members : member[i].pc = "failed" /\ batch.err = member[i].err
    /\ batch.phase = "fulfilled" => AllAt(member, "returned")

\* one member returned a terminal run, the other one's wait failed
C5_Witness ==
    /\ Len(member) = 2
    /\ member[1].pc = "returned"
    /\ member[2].pc = "failed"
    /\ member[2].polls > 0
    /\ batch.phase = "rejected"
    /\ batch.results = <<>>

(***************************************************************************)
(* Claims about the transport (checked under SpecRequest).                 *)
(***************************************************************************)
\* the request has settled with an HTTP response
Answered == raw.kind = "response"

\* the body parses as {error, message, statusCode}
Structured(body) == body.json /\ {"error", "message", "statusCode"} \subseteq body.fields

\* every token of `part` is in `text`
ContainsAll(text, part) == \A i \in 1..Len(part) : Includes(text, part[i])

\* C6: a transport-level failure of fetch (no HTTP response exists) surfaces
\* as a NetworkError wrapping the cause: an Error carrying the "Network error"
\* classification, not the raw underlying error.
C6_TransportFailureIsNetworkError ==
    raw.kind = "reject" =>
        /\ ~outcome.ok
        /\ outcome.err # raw.thrown
        /\ Len(outcome.err.msg) > 0
        /\ Head(outcome.err.msg) = "Network error: "

\* C7 as stated: for every non-2xx response with a structured error body the
\* error message is exactly "API Error: " followed by the body's message.
C7_MessageIsBodyMessage ==
    (Answered /\ ~ResponseOk(raw.response) /\ Structured(raw.response.body)) =>
        /\ ~outcome.ok
        /\ outcome.err.msg = <<"API Error: ">> \o raw.response.body.message

\* C7 as amended: for every non-2xx response with a structured error body the
\* request fails, returns no value, and the error message is "API Error: "
\* followed by the body's message when that is not empty, and by the body's
\* error field when the message is the empty string.
C7_MessageOrErrorCode ==
    (Answered /\ ~ResponseOk(raw.response) /\ Structured(raw.response.body)) =>
        /\ ~outcome.ok
        /\ outcome.value = EmptyResult
        /\ outcome.err.isError
        /\ outcome.err.msg =
              <<"API Error: ">> \o
                  (IF raw.response.body.message # <<>>
                      THEN raw.response.body.message
                      ELSE raw.response.body.error)

C7_Witness ==
    /\ Answered
    /\ raw.response.status = 404
    /\ Structured(raw.response.body)
    /\ raw.response.body.message = <<"no such run">>
    /\ outcome.err.msg = <<"API Error: ", "no such run">>

\* C8: for every non-2xx response whose body does not parse as JSON the
\* request fails with an error whose message contains the status code and
\* the status text of the response.
C8_UnparseableBodyNamesStatus ==
    (Answered /\ ~ResponseOk(raw.response) /\ ~raw.response.body.json) =>
        /\ ~outcome.ok
        /\ Includes(outcome.err.msg, ToString(raw.response.status))
        /\ ContainsAll(outcome.err.msg, raw.response.statusText)

C8_Witness ==
    /\ Answered
    /\ raw.response.status = 500
    /\ raw.response.statusText = <<"Internal Server Error">>
    /\ ~raw.response.body.json
    /\ outcome.err.msg = <<"API Error: ", "HTTP ", "500", ": ", "Internal Server Error">>

\* the content types that say JSON
JsonContentTypes ==
    {Header(<<"application/json">>), Header(<<"application/json", "; charset=utf-8">>)}

\* C9: a 2xx response whose content type is absent or not JSON makes the
\* request return the empty result without parsing the body and without
\* failing; the body of a 2xx response is parsed only when the content type
\* is JSON.
C9_NonJsonSuccessIsEmptyResult ==
    (Answered /\ ResponseOk(raw.response)) =>
        /\ raw.response.contentType \notin JsonContentTypes =>
              /\ outcome.ok
              /\ outcome.value = EmptyResult
              /\ ~outcome.parsed
        /\ outcome.parsed => raw.response.contentType \in JsonContentTypes

C9_Witness ==
    /\ call.op = "deleteAgent"
    /\ Answered
    /\ raw.response.status = 204
    /\ raw.response.contentType = NoHeader
    /\ outcome = Returned(EmptyResult, FALSE)

\* the same exchange with another status
WithStatus(f, status) == [f EXCEPT !.response.status = status]

\* C10 as stated: getAgentRun for a 404 fails with a NotFound error, a kind
\* of its own that the caller can tell from the error of any other failure.
C10_NotFoundIsItsOwnKind ==
    (call.op = "getAgentRun" /\ Answered /\ raw.response.status = 404) =>
        /\ ~outcome.ok
        /\ outcome.err.cls = "NotFound"
        /\ \A f \in FetchOutcomes :
              (f.kind = "reject" \/ f.response.status # 404) => request(f).err # outcome.err

\* C10 as amended: getAgentRun for a 404 fails with a plain Error whose
\* message starts with "API Error: "; the error has no kind of its own and
\* carries no status code, so a 404 and another non-2xx status with the same
\* JSON body give the same error.
C10_NotFoundIsPlainApiError ==
    (call.op = "getAgentRun" /\ Answered /\ raw.response.status = 404) =>
        /\ ~outcome.ok
        /\ outcome.err.cls = "Error"
        /\ Head(outcome.err.msg) = "API Error: "
        /\ raw.response.body.json => request(WithStatus(raw, 500)) = outcome

C10_Witness ==
    /\ call.op = "getAgentRun"
    /\ Answered
    /\ raw.response.status = 404
    /\ raw.response.body.json
    /\ outcome.err = ErrorOf("Error", <<"API Error: ", "no such run">>)

(***************************************************************************)
(* Claims about retries and the order of requests in runBatch.             *)
(***************************************************************************)
\* the state of a member whose request has failed
FailedOnce(m) ==
    /\ m.failures = 1
    /\ m.pc = "failed"
    /\ m.err \in RequestErrors

\* C11: the client never retries.  Each createAgentRun and each getAgentRun
\* call of a member is one request (one create plus one per poll); a member
\* has at most one failed request, and when a request fails the member has
\* failed with the error of that request, runBatch is rejected, and the
\* member makes no further request: a getAgentRun that fails inside the wait
\* is the last poll of that run.
C11_NoRetry ==
    /\ [](\A i \in Members :
            /\ member[i].fetches = 1 + member[i].polls
            /\ member[i].failures <= 1
            /\ member[i].failures > 0 => FailedOnce(member[i]) /\ batch.phase = "rejected")
    /\ [][\A i \in Members :
            member[i].failures > 0 =>
                /\ member'[i].fetches = member[i].fetches
                /\ member'[i].polls = member[i].polls]_vars

\* a getAgentRun failed after an earlier poll had succeeded; another member's
\* run is still being waited for
C11_Witness ==
    \E i \in Members :
        /\ FailedOnce(member[i])
        /\ member[i].polls = 2
        /\ member[i].fetches = 3
        /\ \E j \in Members : member[j].pc \in {"polling", "sleeping"}

\* the getAgentRun requests handed to fetch so far
GetRunRequests == {w \in sent : w.method = "GET"}

\* the createAgentRun of member i has failed
CreateFailed(i) == member[i].pc = "failed" /\ member[i].runId = ""

\* C16: in runBatch no getAgentRun is requested before every createAgentRun
\* of the batch has returned a run: while a create is pending, or once a
\* create has failed, no GET has been sent and no member has polled, also
\* not the members whose run was created.
C16_NoPollBeforeAllCreated ==
    (batch.phase = "creating" \/ \E i \in Members : member[i].pc = "creating" \/ CreateFailed(i)) =>
        /\ GetRunRequests = {}
        /\ \A i \in Members : member[i].polls = 0

\* one run of the batch was created, the create of another failed, and the
\* created run is never polled
C16_Witness ==
    /\ batch.phase = "rejected"
    /\ \E i, j \in Members :
        /\ CreateFailed(i)
        /\ member[j].pc = "created"
        /\ \E k \in 1..Len(remote) : remote[k].id = member[j].runId /\ Terminal(remote[k].status)
    /\ GetRunRequests = {}

(***************************************************************************)
(* Claims about the deadline of one wait.                                  *)
(***************************************************************************)
\* the deadline of member i has passed
DeadlinePassed(i) == options.timeout > 0 /\ now - member[i].startTime >= options.timeout

\* C18: the deadline is looked at only at the top of the loop.  Every poll
\* is issued before the deadline; a getAgentRun that returns a terminal
\* snapshot makes the wait return that snapshot, also when the deadline has
\* passed since the poll was issued; and the step that raises the Timeout is
\* always the end of a sleep.
C18_DeadlineOnlyAtLoopTop ==
    /\ [](\A i \in Members :
            /\ ~(TimedOut(i) /\ member[i].sleeps = 0)
            /\ (member[i].polls > 0 /\ options.timeout > 0) =>
                    member[i].pollStart - member[i].startTime < options.timeout)
    /\ [][\A i \in Members :
            /\ (TimedOut(i)' /\ ~TimedOut(i)) => member[i].pc = "sleeping"
            /\ (member[i].pc = "polling" /\ member'[i] # member[i] /\ ~RequestFailed(i)'
                    /\ Terminal(RemoteRunOf(i).status)) =>
                  /\ member'[i].pc = "returned"
                  /\ member'[i].result = AgentRunResult(RemoteRunOf(i))]_vars

\* a poll issued before the deadline returned a terminal snapshot after it
C18_Witness ==
    /\ options.timeout = 2
    /\ member[1].pc = "returned"
    /\ member[1].pollStart - member[1].startTime < options.timeout
    /\ member[1].endTime - member[1].startTime > options.timeout
    /\ Terminal(member[1].result.status)

\* the wait of member i has ended: it returned or threw
Ended(i) == member[i].pc \in {"returned", "failed"}

\* every getAgentRun of the wait settles: it returns or fails
PollsSettle == [](member[1].pc = "polling" => <>(member[1].pc # "polling"))

\* the bounds of the model stop the wait: the timer is not due when the
\* clock is at MaxWaitTime, or a wait with no timeout has made MaxPolls polls
Horizon ==
    /\ member[1].pc = "sleeping"
    /\ \/ now = MaxWaitTime /\ now < member[1].sleepStart + options.pollInterval
       \/ options.timeout = 0 /\ member[1].polls = MaxPolls

\* with timeout = 0: if the run becomes terminal and every getAgentRun
\* settles without a failure, the wait returns
ReturnsOnceTerminal ==
    (/\ options.timeout = 0
     /\ PollsSettle
     /\ [](member[1].failures = 0)
     /\ <>Terminal(remote[1].status)) => <>(member[1].pc = "returned" \/ Horizon)

\* C19 as stated: with timeout = 0 the wait returns if the run becomes
\* terminal and every getAgentRun and sleep completes without failure; with
\* timeout > 0 it ends (return, Timeout or request failure) whenever time
\* advances.
C19_EndsWhenTimeAdvances ==
    /\ ReturnsOnceTerminal
    /\ options.timeout > 0 => <>(Ended(1) \/ Horizon)

\* C19 as amended: with timeout = 0 the wait returns if the run becomes
\* terminal and every getAgentRun and sleep completes without failure; with
\* timeout > 0 it ends (return, Timeout or request failure) if time advances
\* and every getAgentRun settles: a getAgentRun that never settles keeps the
\* wait pending past the deadline.
C19_EndsWhenPollsSettle ==
    /\ ReturnsOnceTerminal
    /\ (options.timeout > 0 /\ PollsSettle) => <>(Ended(1) \/ Horizon)

\* the wait ended by the Timeout after polls that all settled
C19_Witness ==
    /\ options.timeout > 0
    /\ TimedOut(1)
    /\ member[1].polls = 2
    /\ member[1].nonTerminal = 2
    /\ ~Terminal(remote[1].status)

(***************************************************************************)
(* Two calls of Agent methods in flight at once, made through Agents that  *)
(* share one AgDevClient: member[i] is call i.                             *)
(***************************************************************************)
OtherAgent == "agent-2"

\* the Agent methods that concern runs
AgentOps == {"run", "startRun", "waitForRun", "getRunResult", "getAllRuns", "getRunEvents"}

\* the methods that are given the id of a run
TakesRunId(op) == op \in {"waitForRun", "getRunResult", "getRunEvents"}

\* the position of call i among the calls that are given a run id
PriorRank(ops, i) == Cardinality({j \in 1..i : TakesRunId(ops[j])})

\* the runs that exist when the calls are made: one for each call that is
\* given a run id, created earlier under that call's agent
PriorRuns(ops, agents, ins) ==
    [k \in 1..PriorRank(ops, Len(ops)) |->
        LET i == CHOOSE i \in 1..Len(ops) : TakesRunId(ops[i]) /\ PriorRank(ops, i) = k
        IN NewRun(k, agents[i], ins[i])]

\* ListResponse<T>
ListBody(items) ==
    [json |-> TRUE, fields |-> {"items", "total"}, error |-> <<>>, message |-> <<>>,
     run |-> NoRun, items |-> items]

ListResponse(items) ==
    Responded([status |-> 200, statusText |-> StatusText(200),
               contentType |-> Header(<<"application/json">>), body |-> ListBody(items)])

\* the method `op` of the Agent `agentId` up to its first await, called at time t
AgentCall(op, agentId, runId, timeout, t) ==
    LET m == [NewMember EXCEPT !.op = op, !.agentId = agentId]
    IN CASE op \in {"run", "startRun"} -> m
         [] op = "waitForRun" ->
                waitForAgentRun([m EXCEPT !.runId = runId, !.fetches = 0], timeout, t)
         [] op = "getRunResult" -> [m EXCEPT !.pc = "getting", !.runId = runId]
         [] op = "getAllRuns" -> [m EXCEPT !.pc = "listing"]
         [] op = "getRunEvents" -> [m EXCEPT !.pc = "events", !.runId = runId]

\* the request that m is waiting for
PendingCall(m) ==
    CASE m.pc = "creating" -> createAgentRunCall(m.agentId)
      [] m.pc \in {"polling", "getting"} -> getAgentRunCall(m.agentId, m.runId)
      [] m.pc = "listing" -> listAgentRunsCall(m.agentId)
      [] m.pc = "events" -> getAgentRunEventsCall(m.agentId, m.runId)
      [] OTHER -> NoCall

InitAgents ==
    /\ call = NoCall
    /\ raw = NoFetch
    /\ outcome = NoOutcome
    /\ now = 0
    /\ options \in [pollInterval : {1}, timeout : Timeouts]
    /\ inputs = <<"a", "b">>
    /\ client \in {AgDevClient(ApiKey, u) : u \in BaseUrls}
    /\ NoPipeline
    /\ draft = NoDraft
    /\ batch = IdleBatch
    /\ \E ops \in [1..2 -> AgentOps], agents \in [1..2 -> {ThisAgent, OtherAgent}] :
        /\ agents[1] = ThisAgent
        /\ remote = PriorRuns(ops, agents, inputs)
        /\ member = [i \in 1..2 |->
                        AgentCall(ops[i], agents[i], RunId(PriorRank(ops, i)), options.timeout, now)]
    /\ sent = {Wire(PendingCall(member[i]), client, i) : i \in 1..2}

\* the remote creates the run of call i: startRun returns its id, run goes on
\* to wait for it
RunCreated(i) ==
    /\ member[i].pc = "creating"
    /\ LET run == NewRun(Len(remote) + 1, member[i].agentId, inputs[i])
           res == request(RunResponse(run))
           m == [member[i] EXCEPT !.runId = res.value.run.id]
           next == IF m.op = "run"
                       THEN waitForAgentRun(m, options.timeout, now)
                       ELSE [m EXCEPT !.pc = "returned", !.endTime = now]
       IN /\ remote' = Append(remote, run)
          /\ member' = [member EXCEPT ![i] = next]
          /\ sent' = sent \cup PollSent(next, i)
    /\ UNCHANGED <<now, options, inputs, batch, client>>
    /\ UNCHANGED transportVars
    /\ UNCHANGED <<pipelineVars, draftVars>>

\* the one GET of getRunResult, getAllRuns or getRunEvents returns
ReadReturns(i) ==
    /\ member[i].pc \in {"getting", "listing", "events"}
    /\ LET m == member[i]
           mine == SelectSeq(remote, LAMBDA r : r.agentId = m.agentId)
           res == CASE m.pc = "getting" -> request(RunResponse(remote[RemoteIndex(remote, m.runId)]))
                    [] m.pc = "listing" -> request(ListResponse(mine))
                    [] m.pc = "events" -> request(ListResponse(<<>>))
       IN member' = [member EXCEPT ![i] =
            CASE m.pc = "getting" ->
                    [m EXCEPT !.pc = "returned", !.endTime = now,
                              !.result = AgentRunResult(res.value.run)]
              [] m.pc = "listing" ->
                    [m EXCEPT !.pc = "returned", !.endTime = now,
                              !.list = [k \in 1..Len(res.value.items) |->
                                            AgentRunResult(res.value.items[k])]]
              [] m.pc = "events" ->
                    [m EXCEPT !.pc = "returned", !.endTime = now, !.list = res.value.items]]
    /\ UNCHANGED <<now, options, inputs, remote, batch>>
    /\ UNCHANGED clientVars
    /\ UNCHANGED transportVars
    /\ UNCHANGED <<pipelineVars, draftVars>>

\* the one GET of getRunResult, getAllRuns or getRunEvents fails
ReadFails(i) ==
    /\ member[i].pc \in {"getting", "listing", "events"}
    /\ \E f \in RemoteFailures :
        member' = [member EXCEPT ![i] = OnRequestFailure(@, request(f).err, now)]
    /\ UNCHANGED <<now, options, inputs, remote, batch>>
    /\ UNCHANGED clientVars
    /\ UNCHANGED transportVars
    /\ UNCHANGED <<pipelineVars, draftVars>>

NextAgents ==
    \/ \E i \in 1..Len(member) : RunCreated(i)
    \/ \E i \in 1..Len(member) : CreateRunFails(i)
    \/ \E i \in 1..Len(member) : PollReturns(i)
    \/ \E i \in 1..Len(member) : PollFails(i)
    \/ \E i \in 1..Len(member) : SleepEnds(i)
    \/ \E i \in 1..Len(member) : ReadReturns(i)
    \/ \E i \in 1..Len(member) : ReadFails(i)
    \/ \E k \in 1..Len(remote) : RemoteProgress(k)
    \/ Tick

SpecAgents == InitAgents /\ [][NextAgents]_vars

(***************************************************************************)
(* Claims about Agents that share a client (checked under SpecAgents).     *)
(***************************************************************************)
\* the agent id and the run id in the URL of a request
AgentIn(w) == w.url[Len(client.baseUrl) + 2]

NamesRun(w) == Len(w.url) >= Len(client.baseUrl) + 4

RunIn(w) == w.url[Len(client.baseUrl) + 4]

\* the requests of call i
SentBy(i) == {w \in sent : w.by = i}

\* C12: Agents with different agent ids share one client and have calls in
\* flight at once.  Under every interleaving each request carries the API
\* key and the base URL the client was constructed with and the agent id of
\* the Agent whose call made it; every run a call polls exists on the remote
\* under that agent, and for Agent.run it is the run created for that call's
\* own input; the client's apiKey and baseUrl never change.
C12_SharedClientNoInterference ==
    /\ [](/\ client = AgDevClient(ApiKey, <<"https://api.ag.dev", "/">>)
          /\ \A w \in sent :
                /\ w.apiKey = ApiKey
                /\ SubSeq(w.url, 1, Len(client.baseUrl)) = <<"https://api.ag.dev">>
                /\ AgentIn(w) = member[w.by].agentId
                /\ NamesRun(w) =>
                      \E k \in 1..Len(remote) :
                          /\ remote[k].id = RunIn(w)
                          /\ remote[k].agentId = member[w.by].agentId
                          /\ remote[k].input = inputs[w.by])
    /\ [][client' = client]_vars

\* two Agents with different ids each created a run and polled it to the end
\* through the one client
C12_Witness ==
    /\ member[1].agentId # member[2].agentId
    /\ \A i \in 1..2 :
          /\ member[i].op = "run"
          /\ member[i].pc = "returned"
          /\ member[i].polls >= 2
          /\ \E w \in SentBy(i) : NamesRun(w) /\ RunIn(w) = member[i].runId
    /\ member[1].runId = "run-2"

\* the request creates a run: POST <base>/v0.1/agents/<agent>/runs with a body
CreatesRun(w) ==
    /\ w.method = "POST"
    /\ w.hasBody
    /\ Len(w.url) = Len(client.baseUrl) + 3
    /\ w.url[Len(w.url)] = "/runs"

\* the request reads: GET with no body
Reads(w) == w.method = "GET" /\ ~w.hasBody

\* C15: the local process never deletes or changes a run.  Whatever run,
\* startRun, waitForRun, getRunResult, getAllRuns and getRunEvents calls are
\* made, every request sent to a run endpoint is the POST that creates a run
\* or a GET, and a step in which an existing run of the remote changes is a
\* step of the remote alone: no call moves and no request is sent in it.
C15_RunsOnlyCreatedAndRead ==
    /\ [](\A w \in sent : CreatesRun(w) \/ Reads(w))
    /\ [][(\E k \in 1..Len(remote) : remote'[k] # remote[k]) =>
              (member' = member /\ sent' = sent)]_vars

\* a run was created and polled to its end while the events of another run
\* were read; both runs finished on the remote
C15_Witness ==
    /\ member[1].op = "run"
    /\ member[1].pc = "returned"
    /\ member[2].op = "getRunEvents"
    /\ member[2].pc = "returned"
    /\ \A k \in 1..Len(remote) : Terminal(remote[k].status)
    /\ \E w \in SentBy(1) : CreatesRun(w)
    /\ \E w \in SentBy(2) : Reads(w) /\ w.url[Len(w.url)] = "/events"

\* the fields of AgentRunResult
ResultFields == {"id", "status", "input", "resultData", "createdAt", "updatedAt", "completedAt"}

\* the run of the remote with this id
RemoteRun(runId) == remote[RemoteIndex(remote, runId)]

\* C17: Agent.run(input) makes exactly one createAgentRun and then polls only
\* the run that this create returned.  When it returns, the record has the
\* seven fields of AgentRunResult, its id is the id of the created run, its
\* status is done or error, and every field is equal to the field of the
\* last snapshot polled (the run is terminal, so that is the run as it is on
\* the remote).
C17_RunCreatesOnceAndPollsItsRun ==
    \A i \in Members :
        member[i].op = "run" =>
            /\ Cardinality({w \in SentBy(i) : CreatesRun(w)}) = 1
            /\ member[i].fetches = 1 + member[i].polls
            /\ member[i].polls > 0 => RemoteRun(member[i].runId).input = inputs[i]
            /\ \A w \in SentBy(i) : NamesRun(w) => RunIn(w) = member[i].runId
            /\ member[i].pc = "returned" =>
                  /\ DOMAIN member[i].result = ResultFields
                  /\ member[i].result.id = member[i].runId
                  /\ member[i].result.status \in {"done", "error"}
                  /\ \A f \in ResultFields : member[i].result[f] = RemoteRun(member[i].runId)[f]

\* two runs of one Agent were created in the opposite order of the calls;
\* the first call polled its own run three times and returned it with
\* status error
C17_Witness ==
    /\ member[1].op = "run"
    /\ member[2].op = "run"
    /\ member[1].agentId = member[2].agentId
    /\ member[1].runId = "run-2"
    /\ member[1].pc = "returned"
    /\ member[1].polls = 3
    /\ member[1].result.status = "error"
    /\ member[1].result.completedAt = "at-error"
    /\ member[1].result.input = "a"

(***************************************************************************)
(* The configuration: config = configSchema.parse(process.env).            *)
(***************************************************************************)
\* process.env after dotenv has read apps/main/.env as the README gives it
Env ==
    [AG_DEV_API_KEY |-> ApiKey,
     COMPANY_PROFILE_AGENT_ID |-> "agent-profile",
     COMPANY_CONTACTS_AGENT_ID |-> "agent-contacts",
     COMPANY_CONTACT_PROFILE_AGENT_ID |-> "agent-contact-profile",
     CREATE_OUTREACH_EMAIL_AGENT_ID |-> "agent-outreach"]

\* the keys of configSchema, and the defaults of those that have one
SchemaKeys ==
    {"NODE_ENV", "ENABLE_DEBUG", "AG_DEV_API_KEY", "AG_DEV_BASE_URL",
     "COMPANY_PROFILE_AGENT_ID", "COMPANY_CONTACTS_AGENT_ID", "COMPANY_CONTACT_PROFILE_AGENT_ID"}

SchemaDefaults ==
    [NODE_ENV |-> "development", ENABLE_DEBUG |-> "false", AG_DEV_BASE_URL |-> "https://api.ag.dev"]

\* z.object(...).parse(env): the keys of the schema, with their defaults; a
\* key of env that the schema does not name is dropped
configSchemaParse(env) ==
    [k \in SchemaKeys |-> IF k \in DOMAIN env THEN env[k] ELSE SchemaDefaults[k]]

config == configSchemaParse(Env)

\* obj.key: the value, or undefined
Property(obj, key) ==
    IF key \in DOMAIN obj
        THEN [defined |-> TRUE, text |-> obj[key]]
        ELSE [defined |-> FALSE, text |-> ""]

\* `${value}` in a template literal
TemplateString(value) == IF value.defined THEN value.text ELSE "undefined"

\* the environment variable that names the agent of each stage
AgentIdVariable ==
    [profile |-> "COMPANY_PROFILE_AGENT_ID",
     contacts |-> "COMPANY_CONTACTS_AGENT_ID",
     contactProfile |-> "COMPANY_CONTACT_PROFILE_AGENT_ID",
     outreach |-> "CREATE_OUTREACH_EMAIL_AGENT_ID"]

\* new Agent(agDevClient, config.X): the agent id as the Agent puts it in a URL
StageAgentId(s) == TemplateString(Property(config, AgentIdVariable[s]))

(***************************************************************************)
(* The data of the pipeline.                                               *)
(***************************************************************************)
MaxCompanies == 2
MaxContacts == 2
MaxErrorRuns == 1

CompanyNames == {"a", "a-b"}
ContactNames == {"c", "b-c"}

\* loadCompaniesFromCsv: the companies of the file
CompanyLists == UNION {[1..n -> CompanyNames] : n \in 0..MaxCompanies}

Contact(name) == [name |-> name, role |-> "role", email |-> name \o "@mail"]

\* resultData.contacts of a contacts run that is done
ContactLists == UNION {[1..n -> {Contact(c) : c \in ContactNames}] : n \in 0..MaxContacts}

\* resultData: undefined, { result }, or { contacts }
NoResultData == [defined |-> FALSE, result |-> "", contacts |-> <<>>]

TextResultData(text) == [defined |-> TRUE, result |-> text, contacts |-> <<>>]

ContactsResultData(contacts) == [defined |-> TRUE, result |-> "", contacts |-> contacts]

\* the result of run i of a batch of stage s on the input in, with the
\* contacts it found if s is the contacts stage
StageResult(s, i, in, status, contacts) ==
    [input |-> in, status |-> status,
     resultData |-> IF status # "done" THEN NoResultData
                    ELSE IF s = "contacts" THEN ContactsResultData(contacts)
                    ELSE TextResultData(s \o "#" \o ToString(i))]

\* what a fulfilled runBatch of stage s returns for the inputs ins: one
\* result per input, in the order of the inputs, each done or error, at most
\* MaxErrorRuns of them error
StageOutcomes(s, ins) ==
    {[i \in 1..Len(ins) |-> StageResult(s, i, ins[i], st[i], cs[i])] :
        st \in {f \in [1..Len(ins) -> {"done", "error"}] :
                    Cardinality({i \in 1..Len(ins) : f[i] = "error"}) <= MaxErrorRuns},
        cs \in IF s = "contacts" THEN [1..Len(ins) -> ContactLists] ELSE {[i \in 1..Len(ins) |-> <<>>]}}

\* the concatenation of the sequences of a sequence
RECURSIVE Flatten(_)
Flatten(seqs) == IF seqs = <<>> THEN <<>> ELSE Head(seqs) \o Flatten(Tail(seqs))

\* result.resultData?.result || ""
ResultOrEmpty(r) == IF r.resultData.defined THEN r.resultData.result ELSE ""

\* new Map(entries).get(key) || "": the value of the last entry with the key
MapGetOrEmpty(entries, key) ==
    LET at == {i \in 1..Len(entries) : entries[i].key = key}
    IN IF at = {} THEN "" ELSE entries[CHOOSE i \in at : \A j \in at : j <= i].value

\* companies.map((company) => ({ company }))
CompanyInputs(companies) == [i \in 1..Len(companies) |-> [company |-> companies[i]]]

\* one { company, contact } per contact of each contacts result that has contacts
ContactProfileInputs(contactsResults) ==
    Flatten([i \in 1..Len(contactsResults) |->
        LET r == contactsResults[i]
        IN IF r.resultData.defined
               THEN [j \in 1..Len(r.resultData.contacts) |->
                        [company |-> r.input.company, contact |-> r.resultData.contacts[j].name]]
               ELSE <<>>])

\* one outreach input per contact, with the profiles looked up in the two maps
OutreachEmailInputs(profileResults, contactsResults, contactProfileResults) ==
    LET companyProfileMap ==
            [i \in 1..Len(profileResults) |->
                [key |-> profileResults[i].input.company, value |-> ResultOrEmpty(profileResults[i])]]
        contactProfileMap ==
            [i \in 1..Len(contactProfileResults) |->
                [key |-> contactProfileResults[i].input.company \o "-"
                            \o contactProfileResults[i].input.contact,
                 value |-> ResultOrEmpty(contactProfileResults[i])]]
    IN Flatten([i \in 1..Len(contactsResults) |->
        LET r == contactsResults[i]
            company == r.input.company
        IN IF r.resultData.defined
               THEN [j \in 1..Len(r.resultData.contacts) |->
                        [company |-> company,
                         contact |-> r.resultData.contacts[j].name,
                         email |-> r.resultData.contacts[j].email,
                         companyProfile |-> MapGetOrEmpty(companyProfileMap, company),
                         contactProfile |->
                            MapGetOrEmpty(contactProfileMap,
                                          company \o "-" \o r.resultData.contacts[j].name)]]
               ELSE <<>>])

(***************************************************************************)
(* main: the four batches and the file.                                    *)
(***************************************************************************)
\* the part of the state that main changes
Pipeline == [stage |-> stage, main |-> main, saved |-> saved, sent |-> sent]

\* agent.runBatch(ins) is called: every createAgentRun of the batch is handed
\* to fetch before the call gives control back
StartStage(p, s, ins) ==
    [p EXCEPT !.stage[s] = [NoStage EXCEPT !.phase = "running", !.agentId = StageAgentId(s),
                                           !.inputs = ins],
              !.sent = @ \cup {Wire(createAgentRunCall(StageAgentId(s)), client, <<s, i>>) :
                                  i \in 1..Len(ins)},
              !.main.pc = s]

\* `inputs.length > 0 ? await agent.runBatch(inputs) : []`, the second branch
SkipStage(p, s) == [p EXCEPT !.stage[s] = [NoStage EXCEPT !.phase = "skipped"]]

\* `company-results-${timestamp}.json`
OutputPath == <<"company-results-", "timestamp", ".json">>

\* the four lists of the output file
OutputResults(st) ==
    [companyProfiles |->
        [i \in 1..Len(st.profile.results) |->
            [company |-> st.profile.results[i].input.company,
             content |-> ResultOrEmpty(st.profile.results[i])]],
     companyContacts |->
        [i \in 1..Len(st.contacts.results) |->
            [company |-> st.contacts.results[i].input.company,
             contacts |-> st.contacts.results[i].resultData.contacts]],
     contactProfiles |->
        [i \in 1..Len(st.contactProfile.results) |->
            [company |-> st.contactProfile.results[i].input.company,
             contact |-> st.contactProfile.results[i].input.contact,
             content |-> ResultOrEmpty(st.contactProfile.results[i])]],
     outreachEmails |->
        [i \in 1..Len(st.outreach.results) |->
            [company |-> st.outreach.results[i].input.company,
             contact |-> st.outreach.results[i].input.contact,
             email |-> st.outreach.results[i].input.email,
             content |-> ResultOrEmpty(st.outreach.results[i])]]]

\* writeFileSync(absolutePath, JSON.stringify(results, null, 2))
saveResults(files, results, outputPath) == Append(files, [path |-> outputPath, results |-> results])

\* main after the outreach batch: the file is written, or the write throws
\* and the process exits
AfterOutreach(p, written) ==
    IF written
        THEN [p EXCEPT !.saved = saveResults(@, OutputResults(p.stage), OutputPath), !.main.pc = "done"]
        ELSE [p EXCEPT !.main.pc = "exited"]

\* AfterContactProfiles writing a snapshot of the first three stages before
\* it starts the outreach batch
AfterContactProfilesSnapshot(p, written) ==
    LET ins == OutreachEmailInputs(p.stage.profile.results, p.stage.contacts.results,
                                   p.stage.contactProfile.results)
        q == [p EXCEPT !.saved = saveResults(@, OutputResults(p.stage), OutputPath)]
    IN IF Len(ins) > 0
           THEN StartStage(q, "outreach", ins)
           ELSE AfterOutreach(SkipStage(q, "outreach"), written)

\* main after the contact-profile batch: the outreach inputs, and the
\* outreach batch if there are any
AfterContactProfiles(p, written) ==
    LET ins == OutreachEmailInputs(p.stage.profile.results, p.stage.contacts.results,
                                   p.stage.contactProfile.results)
    IN IF Len(ins) > 0
           THEN StartStage(p, "outreach", ins)
           ELSE AfterOutreach(SkipStage(p, "outreach"), written)

\* AfterFirstBatches starting the outreach batch without awaiting the
\* contact-profile batch
AfterFirstBatchesNoAwait(p, written) ==
    LET ins == ContactProfileInputs(p.stage.contacts.results)
    IN IF Len(ins) > 0
           THEN AfterContactProfiles(StartStage(p, "contactProfile", ins), written)
           ELSE AfterContactProfiles(SkipStage(p, "contactProfile"), written)

\* main after Promise.all of the profile and the contacts batch: the
\* contact-profile inputs, and the contact-profile batch if there are any
AfterFirstBatches(p, written) ==
    LET ins == ContactProfileInputs(p.stage.contacts.results)
    IN IF Len(ins) > 0
           THEN StartStage(p, "contactProfile", ins)
           ELSE AfterContactProfiles(SkipStage(p, "contactProfile"), written)

\* the batches main awaits at each await
Awaited(pc) ==
    CASE pc = "contacts" -> {"profile", "contacts"}
      [] pc = "contactProfile" -> {"contactProfile"}
      [] pc = "outreach" -> {"outreach"}
      [] OTHER -> {}

\* main has been called with the companies of the file
InitPipeline ==
    /\ call = NoCall
    /\ raw = NoFetch
    /\ outcome = NoOutcome
    /\ now = 0
    /\ options = [pollInterval |-> 1, timeout |-> 0]
    /\ inputs = <<>>
    /\ remote = <<>>
    /\ member = <<>>
    /\ batch = IdleBatch
    /\ client = AgDevClient(config["AG_DEV_API_KEY"], <<"https://api.ag.dev">>)
    /\ draft = NoDraft
    /\ \E companies \in CompanyLists :
        LET p0 == [stage |-> [s \in Stages |-> NoStage],
                   main |-> [pc |-> "loaded", companies |-> companies, err |-> <<>>],
                   saved |-> <<>>, sent |-> {}]
            p == IF Len(companies) = 0
                     THEN [p0 EXCEPT !.main.pc = "done"]
                     ELSE StartStage(StartStage(p0, "profile", CompanyInputs(companies)),
                                     "contacts", CompanyInputs(companies))
        IN /\ stage = p.stage
           /\ main = p.main
           /\ saved = p.saved
           /\ sent = p.sent

\* main goes on to p
Becomes(p) ==
    /\ stage' = p.stage
    /\ main' = p.main
    /\ saved' = p.saved
    /\ sent' = p.sent
    /\ UNCHANGED <<now, options, inputs, remote, member, batch, client>>
    /\ UNCHANGED <<transportVars, draftVars>>

\* the runBatch of stage s returns its results
StageFulfils(s) ==
    /\ s \in Awaited(main.pc)
    /\ stage[s].phase = "running"
    /\ \E results \in StageOutcomes(s, stage[s].inputs) :
        Becomes([Pipeline EXCEPT !.stage[s].phase = "fulfilled", !.stage[s].results = results])

\* the runBatch of stage s throws
StageRejects(s) ==
    /\ s \in Awaited(main.pc)
    /\ stage[s].phase = "running"
    /\ \E err \in RequestErrors :
        Becomes([Pipeline EXCEPT !.stage[s].phase = "rejected", !.stage[s].err = err])

\* every batch main awaits has returned
AllFulfilled(st, ss) == ss # {} /\ \A s \in ss : st[s].phase = "fulfilled"

\* the profile and the contacts batch have both returned
FirstBatchesReturn ==
    /\ main.pc = "contacts"
    /\ AllFulfilled(stage, Awaited(main.pc))
    /\ \E written \in BOOLEAN : Becomes(AfterFirstBatches(Pipeline, written))

ContactProfilesReturn ==
    /\ main.pc = "contactProfile"
    /\ AllFulfilled(stage, Awaited(main.pc))
    /\ \E written \in BOOLEAN : Becomes(AfterContactProfiles(Pipeline, written))

OutreachReturns ==
    /\ main.pc = "outreach"
    /\ AllFulfilled(stage, Awaited(main.pc))
    /\ \E written \in BOOLEAN : Becomes(AfterOutreach(Pipeline, written))

\* a batch main awaits has thrown: main() rejects, nothing catches it
MainFails ==
    /\ \E s \in Awaited(main.pc) :
        /\ stage[s].phase = "rejected"
        /\ Becomes([Pipeline EXCEPT !.main.pc = "failed", !.main.err = stage[s].err])

NextPipeline ==
    \/ \E s \in Stages : StageFulfils(s)
    \/ \E s \in Stages : StageRejects(s)
    \/ FirstBatchesReturn
    \/ ContactProfilesReturn
    \/ OutreachReturns
    \/ MainFails

SpecPipeline == InitPipeline /\ [][NextPipeline]_vars

(***************************************************************************)
(* Claims about main (checked under SpecPipeline).                         *)
(***************************************************************************)
\* the createAgentRun requests sent for the batch of stage s
CreatedFor(s) == {w \in sent : w.by[1] = s /\ w.method = "POST"}

\* the batch of stage s has returned its results
StageReturned(s) == stage[s].phase = "fulfilled"

\* C13: the profile batch and the contacts batch are started together (the
\* runs of the one are requested exactly when the runs of the other are); no
\* contact-profile run is requested before the whole contacts batch has
\* returned; no outreach run is requested before the profile batch, the
\* contacts batch and the contact-profile batch have all returned.
C13_StagesInDependencyOrder ==
    /\ CreatedFor("profile") = {} <=> CreatedFor("contacts") = {}
    /\ Cardinality(CreatedFor("profile")) = Cardinality(CreatedFor("contacts"))
    /\ CreatedFor("contactProfile") # {} => StageReturned("contacts")
    /\ CreatedFor("outreach") # {} =>
          StageReturned("profile") /\ StageReturned("contacts") /\ StageReturned("contactProfile")

\* the outreach runs of three contacts have been requested
C13_Witness ==
    /\ main.pc = "outreach"
    /\ stage["outreach"].phase = "running"
    /\ Cardinality(CreatedFor("outreach")) = 3
    /\ Cardinality(CreatedFor("contactProfile")) = 3
    /\ Cardinality(CreatedFor("profile")) = 2

\* the results of stage s are in a file that has been written
Persisted(s) ==
    \E k \in 1..Len(saved) :
        CASE s = "profile" -> saved[k].results.companyProfiles = OutputResults(stage).companyProfiles
          [] s = "contacts" -> saved[k].results.companyContacts = OutputResults(stage).companyContacts
          [] s = "contactProfile" -> saved[k].results.contactProfiles = OutputResults(stage).contactProfiles
          [] s = "outreach" -> saved[k].results.outreachEmails = OutputResults(stage).outreachEmails

\* C14 as stated: main persists intermediate snapshots: once main has gone
\* past the batch of a stage the results of that stage are on disk, so when a
\* later batch fails the results of the earlier stages are persisted.
C14_EarlierStagesPersisted ==
    \A s \in Stages : (StageReturned(s) /\ s \notin Awaited(main.pc)) => Persisted(s)

\* C14 as amended: main writes one file, once, after all four batches have
\* returned or been skipped, holding the results of all four stages; before
\* that nothing is written, so when a batch fails nothing is persisted, also
\* not the results of the stages that had returned.
C14_OneFileAfterAllStages ==
    /\ Len(saved) <= 1
    /\ Len(saved) = 1 =>
          /\ main.pc = "done"
          /\ \A s \in Stages : stage[s].phase \in {"fulfilled", "skipped"}
          /\ saved[1] = [path |-> OutputPath, results |-> OutputResults(stage)]
    /\ main.pc \in {"failed", "exited"} => saved = <<>>

\* the outreach batch failed after the three earlier batches had returned
\* results, and nothing is on disk
C14_Witness ==
    /\ main.pc = "failed"
    /\ stage["outreach"].phase = "rejected"
    /\ StageReturned("profile") /\ StageReturned("contacts") /\ StageReturned("contactProfile")
    /\ Len(stage["contactProfile"].results) = 2
    /\ saved = <<>>

\* C20: each of the four agents of main creates its runs under the agent id
\* that its own environment variable supplies: every createAgentRun request
\* of a stage names the value of that stage's variable in the environment,
\* and so every outreach run is created under the value of
\* CREATE_OUTREACH_EMAIL_AGENT_ID.
C20_RunsUnderConfiguredAgentIds ==
    \A s \in Stages : \A w \in CreatedFor(s) : AgentIn(w) = Env[AgentIdVariable[s]]

(***************************************************************************)
(* Claims about runs that end in status error and about waits that go on   *)
(* after the batch has failed (checked under Spec).                        *)
(***************************************************************************)
\* C22: a run that ends on the remote with status error is a result, not a
\* failure.  A wait fails only by a failed request or by the Timeout, never
\* because of the status it saw; a returned wait returns the run as it is on
\* the remote, done or error; runBatch is rejected only if a member failed,
\* and a fulfilled runBatch returns one record per input, in the order of the
\* inputs, the records of the runs that ended in error among them with status
\* error and no resultData.
C22_ErrorStatusIsAResult ==
    /\ \A i \in Members :
          /\ member[i].pc = "failed" => RequestFailed(i) \/ TimedOut(i)
          /\ member[i].pc = "returned" =>
                /\ member[i].result.status = RemoteRunOf(i).status
                /\ member[i].result.status \in {"done", "error"}
    /\ batch.phase = "rejected" => \E i \in Members : RequestFailed(i) \/ TimedOut(i)
    /\ batch.phase = "fulfilled" =>
          /\ Len(batch.results) = Len(inputs)
          /\ \A i \in Members :
                /\ batch.results[i].input = inputs[i]
                /\ batch.results[i].status = RemoteRunOf(i).status
                /\ batch.results[i].status = "error" =>
                      /\ batch.results[i].resultData = ""
                      /\ batch.results[i].completedAt = "at-error"

\* a batch of two returned its list with the record of a run that ended in
\* error at index 1 and the record of a run that is done at index 2
C22_Witness ==
    /\ batch.phase = "fulfilled"
    /\ inputs = <<"a", "b">>
    /\ batch.results[1].status = "error"
    /\ batch.results[1].input = "a"
    /\ batch.results[2].status = "done"
    /\ batch.results[2].resultData = "result"

\* the batch has failed and the wait of member i is still going on
Survives(i) == batch.phase = "rejected" /\ member[i].pc \in {"polling", "sleeping"}

\* C23: the failure of runBatch cancels nothing.  After the batch has been
\* rejected, a member whose wait is still going on takes the same steps as
\* before: when its timer fires it polls again (with timeout = 0 always, with
\* timeout > 0 unless its own deadline has passed, and then it ends by the
\* Timeout), and when its getAgentRun settles it returns a terminal run,
\* sleeps, or fails by that request.  No wait ever ends for another reason,
\* so with timeout = 0 and a run that never ends the polls go on.
C23_NoCancellationAfterFailure ==
    /\ [](\A i \in Members : member[i].pc = "failed" => RequestFailed(i) \/ TimedOut(i))
    /\ [][\A i \in Members :
            (Survives(i) /\ member'[i] # member[i]) =>
                /\ member[i].pc = "sleeping" =>
                      \/ /\ member'[i].pc = "polling"
                         /\ member'[i].polls = member[i].polls + 1
                         /\ \E w \in sent' : w.by = i /\ w.method = "GET"
                      \/ /\ options.timeout > 0
                         /\ now - member[i].startTime >= options.timeout
                         /\ TimedOut(i)'
                /\ member[i].pc = "polling" =>
                      \/ member'[i].pc = "returned" /\ Terminal(member'[i].result.status)
                      \/ member'[i].pc = "sleeping" /\ ~Terminal(RemoteRunOf(i).status)
                      \/ RequestFailed(i)']_vars

\* with timeout = 0 the first member's getAgentRun failed at its first poll
\* and the batch was rejected; the second member, whose run has not ended,
\* has gone on to its third poll after that
C23_Witness ==
    /\ options.timeout = 0
    /\ batch.phase = "rejected"
    /\ Len(member) = 2
    /\ RequestFailed(1)
    /\ member[1].polls = 1
    /\ member[2].pc = "polling"
    /\ member[2].polls = 3
    /\ member[2].pollStart > member[1].endTime
    /\ ~Terminal(RemoteRunOf(2).status)

\* the contacts the contacts batch returned, in order, each with its company
ContactsReturned == ContactProfileInputs(stage["contacts"].results)

\* C24: main builds exactly one contact-profile input and exactly one
\* outreach input per contact that the contacts batch returned, in the order
\* of the contacts; each outreach input carries the company, the contact and
\* the email of its contact, a company profile that a profile run of that
\* same company produced, and a contact profile that a contact-profile run
\* of that same (company, contact) pair produced, whatever the names are.
C24_InputsPairedPerContact ==
    /\ stage["contactProfile"].phase \in {"running", "fulfilled", "rejected"} =>
          stage["contactProfile"].inputs = ContactsReturned
    /\ stage["outreach"].phase \in {"running", "fulfilled", "rejected"} =>
          /\ Len(stage["outreach"].inputs) = Len(ContactsReturned)
          /\ \A k \in 1..Len(ContactsReturned) :
                LET in == stage["outreach"].inputs[k]
                IN /\ in.company = ContactsReturned[k].company
                   /\ in.contact = ContactsReturned[k].contact
                   /\ in.email = Contact(in.contact).email
                   /\ \E i \in 1..Len(stage["profile"].results) :
                         /\ stage["profile"].results[i].input.company = in.company
                         /\ ResultOrEmpty(stage["profile"].results[i]) = in.companyProfile
                   /\ \E j \in 1..Len(stage["contactProfile"].results) :
                         /\ stage["contactProfile"].results[j].input =
                               [company |-> in.company, contact |-> in.contact]
                         /\ ResultOrEmpty(stage["contactProfile"].results[j]) = in.contactProfile

(***************************************************************************)
(* The Arcade MCP server of apps/arcade-mcp: the gamil_create_draft tool,  *)
(* createGmailDraft and createArcadeClient.  The Arcade client is the      *)
(* library @arcadeai/arcadejs; each of its three calls is a promise that   *)
(* resolves, rejects or stays pending.                                     *)
(***************************************************************************)
MaxToolCalls == 2

\* a value that may be undefined, as Property gives it
Undefined == [defined |-> FALSE, text |-> ""]

Defined(text) == [defined |-> TRUE, text |-> text]

\* the truthiness of a string that may be undefined
IsTruthy(value) == value.defined /\ value.text # ""

\* process.env as the server sees it after dotenv.config()
ArcadeEnvs ==
    [ARCADE_API_KEY : {Undefined, Defined(""), Defined("arcade-key")},
     ARCADE_USER_ID : {Undefined, Defined("user-env")}]

\* the arguments of a tool call that passed the tool's parameter schema
ToolArgs ==
    [subject : {"subject"}, body : {"body"}, recipient : {"r1@x", "r2@x"},
     user_id : {Undefined, Defined(""), Defined("user-arg")}]

NoArcade == [apiKey |-> ""]

Arcade(apiKey) == [apiKey |-> apiKey]

createArcadeClient(env) ==
    IF ~IsTruthy(env.ARCADE_API_KEY)
        THEN [success |-> FALSE, client |-> NoArcade,
              error |-> Defined("ARCADE_API_KEY environment variable is not set")]
        ELSE [success |-> TRUE, client |-> Arcade(env.ARCADE_API_KEY.text), error |-> Undefined]

getUserId(user_id, env) ==
    IF IsTruthy(user_id) THEN user_id.text
    ELSE IF IsTruthy(env.ARCADE_USER_ID) THEN env.ARCADE_USER_ID.text
    ELSE "{arcade_user_id}"

TOOL_NAME == "Gmail.WriteDraftEmail"

\* what client.tools.authorize resolves with
AuthResponses == [id : {"auth-1"}, status : {"pending", "completed", "failed"}, url : {"https://auth"}]

\* what client.tools.execute resolves with: output is optional
NoOutput == [hasOutput |-> FALSE, value |-> ""]

ExecuteToolResponses == {NoOutput, [hasOutput |-> TRUE, value |-> "draft-1"]}

\* what a call of the client rejects with: an Error with its message, or a
\* value that is not an Error
ArcadeFailures ==
    {[isError |-> TRUE, message |-> "401 Unauthorized"],
     [isError |-> TRUE, message |-> ""],
     [isError |-> FALSE, message |-> "not an Error"]}

NoFailure == [isError |-> FALSE, message |-> ""]

NoDraftResult == [returned |-> FALSE, success |-> FALSE, message |-> "", data |-> NoOutput,
                  hasData |-> FALSE, error |-> Undefined]

GmailDraftResult(success, message, hasData, data, error) ==
    [returned |-> TRUE, success |-> success, message |-> message, data |-> data,
     hasData |-> hasData, error |-> error]

\* a call of the Arcade client, as it is made
ArcadeCall(api, req) == [api |-> api, request |-> req, settled |-> "pending"]

\* the last call of the client settles
Settle(calls, how) == [calls EXCEPT ![Len(calls)].settled = how]

\* the catch block of createGmailDraft
CaughtRethrows(d, error) ==
    [d EXCEPT !.pc = "rejected", !.calls = Settle(d.calls, "rejected"), !.thrown = error]

Caught(d, error) ==
    [d EXCEPT !.pc = "returned",
              !.calls = Settle(d.calls, "rejected"),
              !.thrown = error,
              !.result = GmailDraftResult(FALSE, "Failed to create Gmail draft", FALSE, NoOutput,
                             Defined(IF error.isError THEN error.message
                                                      ELSE "Unknown error occurred"))]

\* createGmailDraft(params) up to its first await
createGmailDraft(d, params) ==
    LET clientResult == createArcadeClient(d.env) IN
    IF ~clientResult.success
        THEN [d EXCEPT !.pc = "returned",
                       !.params = params,
                       !.result = GmailDraftResult(FALSE,
                                      IF IsTruthy(clientResult.error)
                                          THEN clientResult.error.text
                                          ELSE "Failed to create Arcade client",
                                      FALSE, NoOutput, Defined("Client creation failed"))]
        ELSE [d EXCEPT !.pc = "authorize",
                       !.params = params,
                       !.client = clientResult.client,
                       !.USER_ID = getUserId(params.user_id, d.env),
                       !.calls = <<ArcadeCall("authorize",
                                       [tool_name |-> TOOL_NAME,
                                        user_id |-> getUserId(params.user_id, d.env)])>>]

\* the execute call of createGmailDraft
ExecuteCall(d) ==
    ArcadeCall("execute",
               [tool_name |-> TOOL_NAME,
                input |-> [subject |-> d.params.subject, body |-> d.params.body,
                           recipient |-> d.params.recipient],
                user_id |-> d.USER_ID])

\* client.tools.authorize resolved with authResponse
OnAuthorizedNoWait(d, authResponse) ==
    [d EXCEPT !.pc = "execute",
              !.calls = Append(Settle(d.calls, "resolved"), ExecuteCall(d))]

OnAuthorized(d, authResponse) ==
    [d EXCEPT !.pc = "waitForCompletion",
              !.logged = IF authResponse.status # "completed"
                             THEN Append(d.logged,
                                      "Authorization required. Please click this link to authorize: "
                                          \o authResponse.url)
                             ELSE d.logged,
              !.calls = Append(Settle(d.calls, "resolved"),
                               ArcadeCall("waitForCompletion", authResponse))]

\* client.auth.waitForCompletion resolved
OnAuthorizationCompleted(d) ==
    [d EXCEPT !.pc = "execute",
              !.calls = Append(Settle(d.calls, "resolved"), ExecuteCall(d))]

\* client.tools.execute resolved with response
OnExecuted(d, response) ==
    [d EXCEPT !.pc = "returned",
              !.calls = Settle(d.calls, "resolved"),
              !.result = GmailDraftResult(TRUE, "Gmail draft created successfully", TRUE,
                                          response, Undefined)]

\* JSON.stringify(value, null, 2) of a string, and of undefined in a template
JsonStringify(output) ==
    IF output.hasOutput THEN "\"" \o output.value \o "\"" ELSE "undefined"

\* what the execute of the tool returns for a result of createGmailDraft
ToolReply(result) ==
    IF ~result.success
        THEN "Error creating Gmail draft: " \o result.message
                 \o (IF IsTruthy(result.error) THEN " - " \o result.error.text ELSE "")
        ELSE "Gmail draft created successfully:\n\n"
                 \o JsonStringify(IF result.hasData THEN result.data ELSE NoOutput)

\* the server is started and has served no call
Listening(env) ==
    [pc |-> "listening", env |-> env, served |-> 0, params |-> <<>>, client |-> NoArcade,
     USER_ID |-> "", calls |-> <<>>, logged |-> <<>>, thrown |-> NoFailure,
     result |-> NoDraftResult, reply |-> ""]

InitDraft ==
    /\ call = NoCall
    /\ raw = NoFetch
    /\ outcome = NoOutcome
    /\ now = 0
    /\ options = [pollInterval |-> 1, timeout |-> 0]
    /\ inputs = <<>>
    /\ remote = <<>>
    /\ member = <<>>
    /\ batch = IdleBatch
    /\ client = AgDevClient(ApiKey, <<"https://api.ag.dev">>)
    /\ sent = {}
    /\ NoPipeline
    /\ draft \in {Listening(env) : env \in ArcadeEnvs}

DraftBecomes(d) ==
    /\ draft' = d
    /\ UNCHANGED <<transportVars, batchVars, clientVars, pipelineVars>>

\* a gamil_create_draft call arrives: execute calls createGmailDraft
ToolCalled ==
    /\ draft.pc \in {"listening", "replied"}
    /\ draft.served < MaxToolCalls
    /\ \E args \in ToolArgs :
        DraftBecomes(createGmailDraft(
            [Listening(draft.env) EXCEPT !.served = draft.served],
            [subject |-> args.subject, body |-> args.body, recipient |-> args.recipient,
             user_id |-> args.user_id]))

AuthorizeResolves ==
    /\ draft.pc = "authorize"
    /\ \E authResponse \in AuthResponses : DraftBecomes(OnAuthorized(draft, authResponse))

WaitResolves ==
    /\ draft.pc = "waitForCompletion"
    /\ DraftBecomes(OnAuthorizationCompleted(draft))

ExecuteResolves ==
    /\ draft.pc = "execute"
    /\ \E response \in ExecuteToolResponses : DraftBecomes(OnExecuted(draft, response))

\* the call createGmailDraft awaits rejects
ArcadeCallRejects ==
    /\ draft.pc \in {"authorize", "waitForCompletion", "execute"}
    /\ \E error \in ArcadeFailures : DraftBecomes(Caught(draft, error))

\* createGmailDraft has returned: execute returns its text
ToolReturns ==
    /\ draft.pc = "returned"
    /\ DraftBecomes([draft EXCEPT !.pc = "replied", !.served = @ + 1,
                                  !.reply = ToolReply(draft.result)])

NextDraft ==
    \/ ToolCalled
    \/ AuthorizeResolves
    \/ WaitResolves
    \/ ExecuteResolves
    \/ ArcadeCallRejects
    \/ ToolReturns

SpecDraft == InitDraft /\ [][NextDraft]_vars

(***************************************************************************)
(* Claims about createGmailDraft (checked under SpecDraft).                *)
(***************************************************************************)
\* the calls of the Arcade client made by the current createGmailDraft
ArcadeCalls == {draft.calls[k] : k \in 1..Len(draft.calls)}

\* the handshake call api was made and rejected
HandshakeFailed(api) ==
    \E c \in ArcadeCalls : c.api = api /\ c.settled = "rejected"

\* C21: createGmailDraft asks for the tool execution only as its third call
\* of the Arcade client, after an authorize call that resolved and after a
\* waitForCompletion call, made with an authorize response, that resolved;
\* the execution is requested for the tool and the user that were authorized.
\* When the authorize call or the wait rejects, no execution is requested
\* and createGmailDraft has returned a result with success = false.
C21_HandshakeBeforeExecute ==
    /\ \A k \in 1..Len(draft.calls) :
          draft.calls[k].api = "execute" =>
              /\ k = 3
              /\ draft.calls[1].api = "authorize"
              /\ draft.calls[1].settled = "resolved"
              /\ draft.calls[2].api = "waitForCompletion"
              /\ draft.calls[2].settled = "resolved"
              /\ draft.calls[2].request \in AuthResponses
              /\ draft.calls[3].request.tool_name = draft.calls[1].request.tool_name
              /\ draft.calls[3].request.user_id = draft.calls[1].request.user_id
    /\ (HandshakeFailed("authorize") \/ HandshakeFailed("waitForCompletion")) =>
          /\ \A c \in ArcadeCalls : c.api # "execute"
          /\ draft.result.returned
          /\ ~draft.result.success

\* the execution is being requested after an authorization that was pending
\* when authorize returned
C21_Witness ==
    /\ draft.pc = "execute"
    /\ Len(draft.calls) = 3
    /\ draft.calls[3].api = "execute"
    /\ draft.calls[3].settled = "pending"
    /\ draft.calls[2].request.status = "pending"
    /\ Len(draft.logged) = 1

\* createGmailDraft has returned to the tool
DraftReturned == draft.pc \in {"returned", "replied"}

\* a call of the Arcade client rejected with error
ArcadeFailed == \E c \in ArcadeCalls : c.settled = "rejected"

\* C25: createGmailDraft never ends by throwing, and each way it can fail is
\* a returned result with success = false.  With ARCADE_API_KEY unset or
\* empty it returns the text of createArcadeClient and has called nothing of
\* the Arcade client.  When authorize, waitForCompletion or execute rejects,
\* it returns at once with the fixed message and, in error, the message of
\* the Error that was thrown ("Unknown error occurred" for a thrown value
\* that is not an Error).  A result with success = true exists only when the
\* execute call resolved, and carries its response.  The tool turns a failed
\* result into a returned text.
C25_FailuresAreValues ==
    /\ draft.pc # "rejected"
    /\ DraftReturned => draft.result.returned
    /\ (DraftReturned /\ ~IsTruthy(draft.env.ARCADE_API_KEY)) =>
          /\ ~draft.result.success
          /\ draft.calls = <<>>
          /\ draft.result.message = "ARCADE_API_KEY environment variable is not set"
          /\ draft.result.error = Defined("Client creation failed")
    /\ ArcadeFailed =>
          /\ DraftReturned
          /\ ~draft.result.success
          /\ ~draft.result.hasData
          /\ draft.result.message = "Failed to create Gmail draft"
          /\ draft.thrown \in ArcadeFailures
          /\ draft.thrown.isError => draft.result.error = Defined(draft.thrown.message)
          /\ ~draft.thrown.isError => draft.result.error = Defined("Unknown error occurred")
    /\ draft.result.success =>
          /\ Len(draft.calls) = 3
          /\ draft.calls[3].api = "execute"
          /\ draft.calls[3].settled = "resolved"
          /\ draft.result.hasData
          /\ draft.result.data \in ExecuteToolResponses
    /\ (draft.pc = "replied" /\ ~draft.result.success) =>
          draft.reply = "Error creating Gmail draft: " \o draft.result.message
                            \o (IF draft.result.error.text # ""
                                    THEN " - " \o draft.result.error.text ELSE "")

\* the wait for the authorization rejected with an Error: createGmailDraft
\* returned its message and the tool replied with it
C25_Witness ==
    /\ draft.pc = "replied"
    /\ Len(draft.calls) = 2
    /\ draft.calls[2].api = "waitForCompletion"
    /\ draft.calls[2].settled = "rejected"
    /\ draft.thrown.isError
    /\ draft.result.error = Defined("401 Unauthorized")
    /\ draft.reply = "Error creating Gmail draft: Failed to create Gmail draft - 401 Unauthorized"

====
